---- MODULE Spec2Model ----
(***************************************************************************)
(* A model of plot.py: the script reads a CSV file of Birthday Problem     *)
(* probabilities, splits its rows at Probability 0.5, draws the two parts  *)
(* as bar series and saves the chart.                                      *)
(*                                                                         *)
(* Text (a CSV cell) is a sequence of one-character strings, so that       *)
(* float() and int() are modelled as the parsers they are.  A float is a   *)
(* record [kind, v]: kind is "finite", "nan", "inf" or "-inf", and a       *)
(* finite value is v / Scale.  The cells of the model carry at most        *)
(* FracDigits fractional digits, so the value is exact; exponents,         *)
(* underscores and surrounding blanks, which float() also accepts, are not *)
(* among the modelled cells.  Every modelled line has one cell per header  *)
(* column and every header names both required columns.                    *)
(***************************************************************************)
EXTENDS Integers, Sequences, FiniteSets, TLC

VARIABLES
  argv,        \* sys.argv, argv[1] is Python's sys.argv[0]
  fs,          \* the file system: path -> content
  out_writable,\* whether the output path can be opened for writing
  pc,          \* position of the script
  fh,          \* the number of open input file handles
  rows,        \* rows
  lo_rows,     \* lo_rows
  hi_rows,     \* hi_rows
  bars,        \* the bar series drawn on the current axes, in drawing order
  deco,        \* tick size, labels, title and layout applied to the axes
  stdout,      \* the lines printed to standard output
  error,       \* the uncaught exception, "" when there is none
  exit_status, \* the process's exit status, read once pc is terminal
  trace        \* the statements executed so far, in order

vars == <<argv, fs, out_writable, pc, fh, rows, lo_rows, hi_rows, bars, deco,
          stdout, error, exit_status, trace>>

----------------------------------------------------------------------------
(* Bounds of the model.                                                    *)

MaxRows == 2
FracDigits == 3

----------------------------------------------------------------------------
(* Numbers                                                                 *)

RECURSIVE Pow10(_)
Pow10(n) == IF n = 0 THEN 1 ELSE 10 * Pow10(n - 1)

Scale == Pow10(FracDigits)

Digit == [c \in {"0", "1", "2", "3", "4", "5", "6", "7", "8", "9"} |->
            CASE c = "0" -> 0 [] c = "1" -> 1 [] c = "2" -> 2 [] c = "3" -> 3
              [] c = "4" -> 4 [] c = "5" -> 5 [] c = "6" -> 6 [] c = "7" -> 7
              [] c = "8" -> 8 [] c = "9" -> 9]

IsDigits(t) == \A i \in 1..Len(t) : t[i] \in DOMAIN Digit

RECURSIVE DigitsValue(_)
DigitsValue(t) ==
  IF t = <<>> THEN 0
  ELSE 10 * DigitsValue(SubSeq(t, 1, Len(t) - 1)) + Digit[t[Len(t)]]

HasSign(t) == t # <<>> /\ t[1] \in {"+", "-"}
Unsigned(t) == IF HasSign(t) THEN Tail(t) ELSE t
Negative(t) == t # <<>> /\ t[1] = "-"

Lower(c) ==
  CASE c = "N" -> "n" [] c = "A" -> "a" [] c = "I" -> "i" [] c = "F" -> "f"
    [] c = "T" -> "t" [] c = "Y" -> "y" [] OTHER -> c

LowerText(t) == [i \in 1..Len(t) |-> Lower(t[i])]

Finite(v) == [kind |-> "finite", v |-> v]
NaN == [kind |-> "nan", v |-> 0]
Inf == [kind |-> "inf", v |-> 0]
NegInf == [kind |-> "-inf", v |-> 0]
FloatValueError == [kind |-> "ValueError", v |-> 0]

DotAt(t) == IF \E i \in 1..Len(t) : t[i] = "."
            THEN CHOOSE i \in 1..Len(t) : t[i] = "." /\ \A j \in 1..(i - 1) : t[j] # "."
            ELSE 0

\* float(text)
ParseFloat(t) ==
  LET b == Unsigned(t)
      w == LowerText(b)
      d == DotAt(b)
      ip == IF d = 0 THEN b ELSE SubSeq(b, 1, d - 1)
      fp == IF d = 0 THEN <<>> ELSE SubSeq(b, d + 1, Len(b))
      m == DigitsValue(ip) * Scale + DigitsValue(fp) * Pow10(FracDigits - Len(fp))
  IN  IF w = <<"n", "a", "n">> THEN NaN
      ELSE IF w \in {<<"i", "n", "f">>, <<"i", "n", "f", "i", "n", "i", "t", "y">>}
        THEN (IF Negative(t) THEN NegInf ELSE Inf)
      ELSE IF IsDigits(ip) /\ IsDigits(fp) /\ Len(ip) + Len(fp) > 0
        THEN Finite(IF Negative(t) THEN 0 - m ELSE m)
      ELSE FloatValueError

\* int(text)
ParseInt(t) ==
  LET b == Unsigned(t)
  IN  IF b # <<>> /\ IsDigits(b)
        THEN [ok |-> TRUE, v |-> IF Negative(t) THEN 0 - DigitsValue(b) ELSE DigitsValue(b)]
        ELSE [ok |-> FALSE, v |-> 0]

\* 0.5, the threshold of the partition and the opacity of the bars
Half == Scale \div 2

\* f <= 0.5 and f > 0.5 as IEEE comparisons: both are false of a NaN
FloatLe(f, g) ==
  \/ f.kind = "finite" /\ g.kind = "finite" /\ f.v <= g.v
  \/ f.kind = "-inf" /\ g.kind # "nan"
  \/ g.kind = "inf" /\ f.kind # "nan"

FloatGt(f, g) ==
  \/ f.kind = "finite" /\ g.kind = "finite" /\ f.v > g.v
  \/ f.kind = "inf" /\ g.kind \in {"finite", "-inf"}
  \/ g.kind = "-inf" /\ f.kind \in {"finite", "inf"}

\* 100.0 * f
Percent == 100
TimesPercent(f) == IF f.kind = "finite" THEN Finite(Percent * f.v) ELSE f

----------------------------------------------------------------------------
(* The command line and the files                                          *)

NP == "Number of People"
PR == "Probability"

InPath == "in.csv"
OutPath == "out.svg"

\* sys.argv[i]
Argv(i) == argv[i + 1]

Argvs == { <<"plot.py">>,
           <<"./plot.py", InPath>>,
           <<"plot.py", InPath, OutPath>> }

PeopleCells == { <<"2", "3">>, <<"x">> }
ProbCells == { <<"0", ".", "0", "1">>, <<"0", ".", "5">>, <<"0", ".", "5", "0", "1">>,
               <<"1", ".", "5">>,
               <<"n", "a", "n">>, <<"i", "n", "f">>, <<"a", "b", "c">> }

Item(p, q) == [bad |-> FALSE, fields |-> (NP :> p) @@ (PR :> q) @@ ("Note" :> <<"n">>)]
BadItem == [bad |-> TRUE, fields |-> (NP :> <<>>) @@ (PR :> <<>>) @@ ("Note" :> <<>>)]

\* the Probabilities paired with a Number of People int() rejects: one that
\* goes to lo_rows, one that goes to hi_rows and one that goes to neither
ProbCellsOfBadPeople == { <<"0", ".", "5">>, <<"0", ".", "5", "0", "1">>, <<"n", "a", "n">> }

Items ==
  { Item(c[1], c[2]) :
      c \in { d \in PeopleCells \X ProbCells :
                ParseInt(d[1]).ok \/ d[2] \in ProbCellsOfBadPeople } }
    \cup {BadItem}

Headers == { <<NP, PR>>, <<PR, NP>>, <<NP, PR, "Note">> }

\* the line of a CSV file with header h that holds the item's fields; a bad
\* line is one the csv module cannot parse
LineOf(h, it) ==
  [bad |-> it.bad, cells |-> [i \in 1..Len(h) |-> it.fields[h[i]]]]

CsvFile(h, items) ==
  [kind |-> "csv", header |-> h, lines |-> [i \in 1..Len(items) |-> LineOf(h, items[i])]]

ItemSeqs == UNION { [1..n -> Items] : n \in 0..MaxRows }

ExampleItems ==
  << Item(<<"1">>, <<"0", ".", "0">>),
     Item(<<"2">>, <<"0", ".", "0", "1">>),
     Item(<<"2", "3">>, <<"0", ".", "5">>),
     Item(<<"5", "0">>, <<"0", ".", "9", "7">>),
     Item(<<"7", "0">>, <<"0", ".", "9", "9", "9">>) >>

ExampleFile == CsvFile(<<NP, PR>>, ExampleItems)

CsvFiles == { CsvFile(h, d) : h \in Headers, d \in ItemSeqs } \cup {ExampleFile}

Missing == [kind |-> "missing"]
Unreadable == [kind |-> "unreadable"]
Absent == [kind |-> "absent"]
OldFile == [kind |-> "old"]

----------------------------------------------------------------------------
(* csv.DictReader                                                          *)

Range(s) == { s[i] : i \in 1..Len(s) }
IndexOf(s, e) == CHOOSE i \in 1..Len(s) : s[i] = e

\* one row of the reader: the header's names mapped to the line's cells
DictRow(h, cells) == [c \in Range(h) |-> cells[IndexOf(h, c)]]

\* list(row for row in csv.DictReader(fh)): the rows, or csv.Error at the
\* first line that cannot be parsed
DictReader(file) ==
  IF \E i \in 1..Len(file.lines) : file.lines[i].bad
    THEN [ok |-> FALSE, rows |-> <<>>]
    ELSE [ok |-> TRUE,
          rows |-> [i \in 1..Len(file.lines) |-> DictRow(file.header, file.lines[i].cells)]]

----------------------------------------------------------------------------
(* The script                                                              *)

MinArgc == 3
ExitArg == -1
YTickFontSize == 5
TitleFontSize == 9

Init ==
  /\ argv \in Argvs
  /\ fs \in { (InPath :> i) @@ (OutPath :> o) :
                i \in {Missing, Unreadable} \cup CsvFiles, o \in {Absent, OldFile} }
  /\ out_writable \in (IF fs[OutPath] = OldFile THEN BOOLEAN ELSE {TRUE})
  /\ pc = "check_args"
  /\ fh = 0
  /\ rows = <<>>
  /\ lo_rows = <<>>
  /\ hi_rows = <<>>
  /\ bars = <<>>
  /\ deco = <<>>
  /\ stdout = <<>>
  /\ error = ""
  /\ exit_status = 0
  /\ trace = <<>>

\* "Usage: {} input.csv output.svg".format(name)
UsageMessage(name) == <<"Usage: ", name, " input.csv output.svg">>

\* an uncaught exception ends the process with a traceback and status 1
Raise(e) ==
  /\ pc' = "aborted"
  /\ error' = e
  /\ exit_status' = 1

CheckArgs_NoExit ==
  /\ pc = "check_args"
  /\ trace' = Append(trace, "check_args")
  /\ IF Len(argv) < MinArgc
       THEN /\ stdout' = Append(stdout, UsageMessage(Argv(0)))
            /\ pc' = "open"
            /\ exit_status' = ExitArg % 256
       ELSE /\ pc' = "open"
            /\ UNCHANGED <<stdout, exit_status>>
  /\ UNCHANGED <<argv, fs, out_writable, fh, rows, lo_rows, hi_rows, bars, deco, error>>

\* lines 16-19
CheckArgs ==
  /\ pc = "check_args"
  /\ trace' = Append(trace, "check_args")
  /\ IF Len(argv) < MinArgc
       THEN /\ stdout' = Append(stdout, UsageMessage(Argv(0)))
            /\ pc' = "exited"
            /\ exit_status' = ExitArg % 256
       ELSE /\ pc' = "open"
            /\ UNCHANGED <<stdout, exit_status>>
  /\ UNCHANGED <<argv, fs, out_writable, fh, rows, lo_rows, hi_rows, bars, deco, error>>

OpenInput_Swallow ==
  /\ pc = "open"
  /\ trace' = Append(trace, "open")
  /\ IF fs[Argv(1)].kind = "csv"
       THEN /\ fh' = fh + 1
            /\ pc' = "read"
            /\ UNCHANGED <<error, exit_status>>
       ELSE /\ pc' = "lo_rows"
            /\ UNCHANGED <<fh, error, exit_status>>
  /\ UNCHANGED <<argv, fs, out_writable, rows, lo_rows, hi_rows, bars, deco, stdout>>

\* line 22 calling line 13: open(sys.argv[1], newline = '')
OpenInput ==
  /\ pc = "open"
  /\ trace' = Append(trace, "open")
  /\ CASE fs[Argv(1)].kind = "csv" ->
            /\ fh' = fh + 1
            /\ pc' = "read"
            /\ UNCHANGED <<error, exit_status>>
       [] fs[Argv(1)].kind = "missing" ->
            /\ Raise("FileNotFoundError")
            /\ UNCHANGED fh
       [] OTHER ->
            /\ Raise("PermissionError")
            /\ UNCHANGED fh
  /\ UNCHANGED <<argv, fs, out_writable, rows, lo_rows, hi_rows, bars, deco, stdout>>

ReadRows_NoWith ==
  /\ pc = "read"
  /\ trace' = Append(trace, "read")
  /\ LET r == DictReader(fs[Argv(1)])
     IN  IF r.ok
           THEN /\ rows' = r.rows
                /\ fh' = fh - 1
                /\ pc' = "lo_rows"
                /\ UNCHANGED <<error, exit_status>>
           ELSE /\ Raise("csv.Error")
                /\ UNCHANGED <<rows, fh>>
  /\ UNCHANGED <<argv, fs, out_writable, lo_rows, hi_rows, bars, deco, stdout>>

\* line 14, and the end of the with block of line 13: the handle is closed
\* whether the reader returns or raises
ReadRows ==
  /\ pc = "read"
  /\ trace' = Append(trace, "read")
  /\ fh' = fh - 1
  /\ LET r == DictReader(fs[Argv(1)])
     IN  IF r.ok
           THEN /\ rows' = r.rows
                /\ pc' = "lo_rows"
                /\ UNCHANGED <<error, exit_status>>
           ELSE /\ Raise("csv.Error")
                /\ UNCHANGED rows
  /\ UNCHANGED <<argv, fs, out_writable, lo_rows, hi_rows, bars, deco, stdout>>

----------------------------------------------------------------------------
(* The partition, lines 23-24                                              *)

LoTest_Strict(row) ==
  LET f == ParseFloat(row[PR])
  IN  f.kind \in {"finite", "-inf"} /\ (f.kind = "finite" => f.v < Half)

\* float(row['Probability']) <= 0.5
LoTest(row) == FloatLe(ParseFloat(row[PR]), Finite(Half))

HiTest_GeHalf(row) ==
  LET f == ParseFloat(row[PR])
  IN  f.kind \in {"finite", "inf"} /\ (f.kind = "finite" => f.v >= Half)

\* float(row['Probability']) > 0.5
HiTest(row) == FloatGt(ParseFloat(row[PR]), Finite(Half))

Reverse(s) == [i \in 1..Len(s) |-> s[Len(s) + 1 - i]]

LoRows_Reversed(rs) == Reverse(SelectSeq(rs, LoTest))

\* [row for row in rows if (float(row['Probability']) <= 0.5)]
LoRows(rs) == SelectSeq(rs, LoTest)

\* [row for row in rows if (float(row['Probability']) > 0.5)]
HiRows(rs) == SelectSeq(rs, HiTest)

\* float() raises ValueError on some row of rs
FloatRaises(rs) == \E i \in 1..Len(rs) : ParseFloat(rs[i][PR]).kind = "ValueError"

\* int() raises ValueError on some row of rs
IntRaises(rs) == \E i \in 1..Len(rs) : ~ParseInt(rs[i][NP]).ok

\* line 23
PartitionLo ==
  /\ pc = "lo_rows"
  /\ trace' = Append(trace, "lo_rows")
  /\ IF FloatRaises(rows)
       THEN /\ Raise("ValueError")
            /\ UNCHANGED lo_rows
       ELSE /\ lo_rows' = LoRows(rows)
            /\ pc' = "hi_rows"
            /\ UNCHANGED <<error, exit_status>>
  /\ UNCHANGED <<argv, fs, out_writable, fh, rows, hi_rows, bars, deco, stdout>>

\* line 24
PartitionHi ==
  /\ pc = "hi_rows"
  /\ trace' = Append(trace, "hi_rows")
  /\ IF FloatRaises(rows)
       THEN /\ Raise("ValueError")
            /\ UNCHANGED hi_rows
       ELSE /\ hi_rows' = HiRows(rows)
            /\ pc' = "bar_lo"
            /\ UNCHANGED <<error, exit_status>>
  /\ UNCHANGED <<argv, fs, out_writable, fh, rows, lo_rows, bars, deco, stdout>>

----------------------------------------------------------------------------
(* The chart, lines 29-54                                                  *)

\* [int(row['Number of People']) for row in rs]
XValues(rs) == [i \in 1..Len(rs) |-> ParseInt(rs[i][NP]).v]

YValues_Fraction(rs) == [i \in 1..Len(rs) |-> ParseFloat(rs[i][PR])]

\* [(100.0 * float(row['Probability'])) for row in rs]
YValues(rs) == [i \in 1..Len(rs) |-> TimesPercent(ParseFloat(rs[i][PR]))]

\* plt.bar(x, y, alpha = 0.5[, color = c])
Series(rs, c) == [x |-> XValues(rs), y |-> YValues(rs), alpha |-> Finite(Half), color |-> c]

\* lines 30-35
BarLo ==
  /\ pc = "bar_lo"
  /\ trace' = Append(trace, "bar_lo")
  /\ IF IntRaises(lo_rows) \/ FloatRaises(lo_rows)
       THEN /\ Raise("ValueError")
            /\ UNCHANGED bars
       ELSE /\ bars' = Append(bars, Series(lo_rows, "default"))
            /\ pc' = "bar_hi"
            /\ UNCHANGED <<error, exit_status>>
  /\ UNCHANGED <<argv, fs, out_writable, fh, rows, lo_rows, hi_rows, deco, stdout>>

\* lines 38-44
BarHi ==
  /\ pc = "bar_hi"
  /\ trace' = Append(trace, "bar_hi")
  /\ IF IntRaises(hi_rows) \/ FloatRaises(hi_rows)
       THEN /\ Raise("ValueError")
            /\ UNCHANGED bars
       ELSE /\ bars' = Append(bars, Series(hi_rows, "red"))
            /\ pc' = "labels"
            /\ UNCHANGED <<error, exit_status>>
  /\ UNCHANGED <<argv, fs, out_writable, fh, rows, lo_rows, hi_rows, deco, stdout>>

Decoration ==
  << <<"yticks", "", YTickFontSize>>,
     <<"xlabel", "Number of People", 0>>,
     <<"ylabel", "Probability of Shared Birthday (%)", 0>>,
     <<"title", "Number of People vs. Probability of Shared Birthday", TitleFontSize>>,
     <<"tight_layout", "", 0>> >>

\* lines 47-51
Labels ==
  /\ pc = "labels"
  /\ trace' = Append(trace, "labels")
  /\ deco' = deco \o Decoration
  /\ pc' = "savefig"
  /\ UNCHANGED <<argv, fs, out_writable, fh, rows, lo_rows, hi_rows, bars, stdout,
                 error, exit_status>>

\* the figure as written to a file
Chart == [kind |-> "chart", bars |-> bars, deco |-> deco]

SavePath_Input == Argv(1)

\* sys.argv[2]
SavePath == Argv(2)

\* line 54, and the normal end of the script
SaveFig ==
  /\ pc = "savefig"
  /\ trace' = Append(trace, "savefig")
  /\ IF out_writable
       THEN /\ fs' = [fs EXCEPT ![SavePath] = Chart]
            /\ pc' = "done"
            /\ exit_status' = 0
            /\ UNCHANGED error
       ELSE /\ Raise("PermissionError")
            /\ UNCHANGED fs
  /\ UNCHANGED <<argv, out_writable, fh, rows, lo_rows, hi_rows, bars, deco, stdout>>

Next ==
  \/ CheckArgs
  \/ OpenInput
  \/ ReadRows
  \/ PartitionLo
  \/ PartitionHi
  \/ BarLo
  \/ BarHi
  \/ Labels
  \/ SaveFig

Spec == Init /\ [][Next]_vars

\* the interpreter runs the script's statements one after another
FairSpec == Spec /\ WF_vars(Next)

----------------------------------------------------------------------------
(* Vocabulary of the properties                                            *)

Ran(step) == \E i \in 1..Len(trace) : trace[i] = step

\* the step was executed and did not raise
Completed(step) ==
  /\ Ran(step)
  /\ ~(pc = "aborted" /\ trace[Len(trace)] = step)

Count(s, e) == Cardinality({ i \in 1..Len(s) : s[i] = e })

RECURSIVE IsSubseq(_, _)
IsSubseq(s, t) ==
  IF s = <<>> THEN TRUE
  ELSE IF t = <<>> THEN FALSE
  ELSE IF Head(s) = Head(t) THEN IsSubseq(Tail(s), Tail(t))
  ELSE IsSubseq(s, Tail(t))

IsPrefix(s, t) == Len(s) <= Len(t) /\ SubSeq(t, 1, Len(s)) = s

\* the parsed Probability is a number in [0, 1]
ValidProbability(row) ==
  LET f == ParseFloat(row[PR])
  IN  f.kind = "finite" /\ 0 <= f.v /\ f.v <= Scale

AtMostHalf(f) == f.kind = "-inf" \/ (f.kind = "finite" /\ 2 * f.v <= Scale)
AboveHalf(f) == f.kind = "inf" \/ (f.kind = "finite" /\ 2 * f.v > Scale)

OSErrors == {"FileNotFoundError", "PermissionError"}

NoChartWritten == \A p \in DOMAIN fs : fs[p].kind # "chart"

ExampleRows == DictReader(ExampleFile).rows

PeopleOf(rs) == { ParseInt(rs[i][NP]).v : i \in 1..Len(rs) }

----------------------------------------------------------------------------
(* C1: for a Dataset whose Probabilities are all numbers in [0, 1], once   *)
(* both partitions are computed every record is in exactly one of lo_rows  *)
(* and hi_rows: the lengths add up, each record occurs in the partitions   *)
(* as often as in rows, and no record is in both.                          *)
C1_PartitionExact ==
  (Completed("hi_rows") /\ \A i \in 1..Len(rows) : ValidProbability(rows[i])) =>
    /\ Len(lo_rows) + Len(hi_rows) = Len(rows)
    /\ Range(lo_rows) \cup Range(hi_rows) = Range(rows)
    /\ Range(lo_rows) \cap Range(hi_rows) = {}
    /\ \A r \in Range(rows) : Count(lo_rows, r) + Count(hi_rows, r) = Count(rows, r)

C1_Witness ==
  /\ Completed("hi_rows")
  /\ \A i \in 1..Len(rows) : ValidProbability(rows[i])
  /\ Len(lo_rows) >= 1
  /\ Len(hi_rows) >= 1

(* C2: a record is in lo_rows exactly when its parsed Probability is       *)
(* <= 0.5 and in hi_rows exactly when it is > 0.5; 0.5 itself goes to      *)
(* lo_rows; the example rows split into people {1, 2, 23} and {50, 70}.    *)
C2_Threshold ==
  Completed("hi_rows") =>
    /\ \A i \in 1..Len(rows) :
         /\ rows[i] \in Range(lo_rows) <=> AtMostHalf(ParseFloat(rows[i][PR]))
         /\ rows[i] \in Range(hi_rows) <=> AboveHalf(ParseFloat(rows[i][PR]))
    /\ \A i \in 1..Len(rows) :
         rows[i][PR] = <<"0", ".", "5">> => rows[i] \in Range(lo_rows)
    /\ rows = ExampleRows =>
         /\ PeopleOf(lo_rows) = {1, 2, 23}
         /\ PeopleOf(hi_rows) = {50, 70}

C2_Witness == Completed("hi_rows") /\ rows = ExampleRows

(* C3: with fewer than 2 arguments the run prints one usage line holding   *)
(* sys.argv[0] and exits with a non-zero status, and nothing else happens: *)
(* the input is never opened, no bars are drawn, no file is written.       *)
C3_Usage ==
  (Len(argv) < 3 /\ pc # "check_args") =>
    /\ pc = "exited"
    /\ Len(stdout) = 1
    /\ \E i \in 1..Len(stdout[1]) : stdout[1][i] = argv[1]
    /\ exit_status # 0
    /\ trace = <<"check_args">>
    /\ fh = 0
    /\ bars = <<>>
    /\ NoChartWritten

C3_Witness ==
  /\ Len(argv) = 2
  /\ pc = "exited"
  /\ argv[1] = "./plot.py"
  /\ exit_status = 255

(* C4: with 2 arguments and a missing or unreadable input the run ends in  *)
(* the Loader with an uncaught OSError and a non-zero status; neither the  *)
(* Partitioner nor the Renderer runs and the output path is untouched.     *)
C4_MissingInput ==
  (Len(argv) >= 3 /\ fs[Argv(1)].kind \in {"missing", "unreadable"} /\ Ran("open")) =>
    /\ pc = "aborted"
    /\ error \in OSErrors
    /\ exit_status # 0
    /\ trace = <<"check_args", "open">>
    /\ fh = 0
    /\ rows = <<>> /\ lo_rows = <<>> /\ hi_rows = <<>> /\ bars = <<>>
    /\ fs[Argv(2)] \in {Absent, OldFile}

C4_Witness ==
  /\ Len(argv) >= 3
  /\ fs[Argv(1)].kind = "missing"
  /\ fs[Argv(2)] = OldFile
  /\ pc = "aborted"
  /\ error = "FileNotFoundError"

\* some record has a Probability float() rejects
NonNumericProbability == \E i \in 1..Len(rows) : ParseFloat(rows[i][PR]).kind = "ValueError"

\* some record has a Number of People int() rejects
NonNumericPeople == \E i \in 1..Len(rows) : ~ParseInt(rows[i][NP]).ok

(* C5: if some record of the Dataset has a non-numeric Probability or      *)
(* Number of People, the run never reaches the output write and ends with  *)
(* an uncaught ValueError; a non-numeric Probability aborts before any bar *)
(* series is drawn.                                                        *)
C5_NonNumericAborts ==
  (Completed("read") /\ (NonNumericProbability \/ NonNumericPeople)) =>
    /\ pc \notin {"savefig", "done"}
    /\ ~Ran("savefig")
    /\ NoChartWritten
    /\ pc = "aborted" => error = "ValueError" /\ exit_status # 0
    /\ NonNumericProbability => bars = <<>> /\ ~Ran("bar_lo")

(* C6: the input handle is open only inside read_csv: at most one handle   *)
(* is ever open, and none is open outside the read, whether read_csv       *)
(* returned, raised on open or raised part-way through the rows.           *)
C6_HandleScoped ==
  /\ fh \in {0, 1}
  /\ pc # "read" => fh = 0
  /\ (pc = "read" /\ ~Ran("read")) => fh = 1

C6_Witness ==
  /\ pc = "aborted"
  /\ error = "csv.Error"
  /\ fh = 0
  /\ Len(fs[Argv(1)].lines) = 2
  /\ ~fs[Argv(1)].lines[1].bad
  /\ fs[Argv(1)].lines[2].bad

FullRun ==
  <<"check_args", "open", "read", "lo_rows", "hi_rows", "bar_lo", "bar_hi",
    "labels", "savefig">>

\* 2 arguments, a well-formed input of valid records, a writable output
ValidRun ==
  /\ Len(argv) >= 3
  /\ out_writable
  /\ fs[Argv(1)].kind = "csv"
  /\ LET r == DictReader(fs[Argv(1)])
     IN  /\ r.ok
         /\ \A i \in 1..Len(r.rows) :
              ValidProbability(r.rows[i]) /\ ParseInt(r.rows[i][NP]).ok

(* C7: a valid run executes the Loader, the Partitioner and the Renderer   *)
(* once each, in that order, and eventually ends normally with the chart   *)
(* (both series, labels and title) written once, by the last statement, to *)
(* the path of the second argument.                                        *)
C7_LinearRun ==
  /\ [](ValidRun => IsPrefix(trace, FullRun))
  /\ [](ValidRun /\ pc = "done" =>
          /\ trace = FullRun
          /\ exit_status = 0 /\ error = ""
          /\ Len(bars) = 2 /\ deco = Decoration
          /\ fs[Argv(2)] = [kind |-> "chart", bars |-> bars, deco |-> deco])
  /\ (ValidRun ~> (pc = "done" /\ fs[Argv(2)].kind = "chart"))

C7_Witness ==
  /\ ValidRun
  /\ pc = "done"
  /\ Len(rows) = 1
  /\ fs[Argv(2)].kind = "chart"

(* C8: each partition is a subsequence of rows, so records keep their      *)
(* relative order, and partitioning leaves rows as the Loader read them.   *)
C8_OrderPreserved ==
  /\ Completed("lo_rows") => IsSubseq(lo_rows, rows)
  /\ Completed("hi_rows") => IsSubseq(hi_rows, rows)
  /\ (Completed("read") /\ fs[Argv(1)].kind = "csv") => rows = DictReader(fs[Argv(1)]).rows

C8_Witness ==
  /\ Completed("hi_rows")
  /\ Len(lo_rows) >= 2
  /\ lo_rows[1] # lo_rows[2]
  /\ Len(hi_rows) >= 1

\* series s holds one bar per record of rs, in order, x the people count
\* and y a hundred times the probability, with opacity 0.5 and colour c
BarsOf(s, rs, c) ==
  /\ Len(s.x) = Len(rs) /\ Len(s.y) = Len(rs)
  /\ \A i \in 1..Len(rs) :
       /\ ParseInt(rs[i][NP]).ok /\ s.x[i] = ParseInt(rs[i][NP]).v
       /\ s.y[i].kind = ParseFloat(rs[i][PR]).kind
       /\ s.y[i].v = 100 * ParseFloat(rs[i][PR]).v
  /\ s.alpha.kind = "finite" /\ 2 * s.alpha.v = Scale
  /\ s.color = c

(* C9: the Renderer draws two series, lo_rows first in the default colour  *)
(* and hi_rows second in red, both with opacity 0.5, x = int(Number of     *)
(* People) and y = 100 * float(Probability); so every bar of the first has *)
(* y <= 50 and every bar of the second y > 50.                             *)
C9_TwoSeries ==
  /\ Completed("bar_lo") => Len(bars) >= 1 /\ BarsOf(bars[1], lo_rows, "default")
  /\ Completed("bar_hi") => Len(bars) = 2 /\ BarsOf(bars[2], hi_rows, "red")
  /\ Completed("bar_hi") =>
       /\ \A i \in 1..Len(bars[1].y) :
            bars[1].y[i].kind = "-inf" \/
              (bars[1].y[i].kind = "finite" /\ bars[1].y[i].v <= 50 * Scale)
       /\ \A i \in 1..Len(bars[2].y) :
            bars[2].y[i].kind = "inf" \/
              (bars[2].y[i].kind = "finite" /\ bars[2].y[i].v > 50 * Scale)
  /\ ~Completed("bar_lo") => bars = <<>>

C9_Witness ==
  /\ Completed("bar_hi")
  /\ Len(bars[1].x) >= 1
  /\ Len(bars[2].x) >= 1
  /\ "Note" \in DOMAIN rows[1]

(* C10: whenever float() accepts every Probability, every record is in     *)
(* exactly one of lo_rows and hi_rows.                                     *)
C10_TotalSplit ==
  Completed("hi_rows") =>
    \A i \in 1..Len(rows) :
      /\ rows[i] \in Range(lo_rows) \cup Range(hi_rows)
      /\ rows[i] \notin Range(lo_rows) \cap Range(hi_rows)

====
